---- MODULE Spec2Model ----
(***************************************************************************)
(* egui-litecode: the CodeEditor and CodeViewer widgets (src/editor.rs,    *)
(* src/viewer.rs).  A widget owns a text buffer `code`, a theme, a leaked   *)
(* syntax reference and an (unused) highlighter field.  ui() hands the host *)
(* TextEdit a layouter closure; every invocation of the closure tokenizes   *)
(* the buffer with syntect's HighlightLines and appends coloured runs to a  *)
(* LayoutJob.                                                               *)
(*                                                                         *)
(* Texts are sequences of one-character strings.  The tokenizer is the     *)
(* external syntect engine; it is represented by a small deterministic      *)
(* tokenizer with one multi-line construct: "o" opens a block comment, "c"  *)
(* closes it, "!" is a character on which the tokenizer reports an error.   *)
(***************************************************************************)
EXTENDS Naturals, Sequences, FiniteSets, TLC

VARIABLES variant, widgets, leaked, lastOp, ui, passes

vars == <<variant, widgets, leaked, lastOp, ui, passes>>

(***************************************************************************)
(* Bounds                                                                  *)
(***************************************************************************)
MaxLen == 3

MaxWidgets == 2

MaxInvocations == 2

(***************************************************************************)
(* Texts                                                                   *)
(***************************************************************************)
Alphabet == {"a", "o", "c", "\n", "\r", "!"}

TextsUpTo(n) == UNION {[1..k -> Alphabet] : k \in 0..n}

Texts == TextsUpTo(MaxLen)

SampleCodes == {<<>>, <<"a", "o">>}

RECURSIVE Concat(_)
Concat(ss) == IF ss = <<>> THEN <<>> ELSE Head(ss) \o Concat(Tail(ss))

(***************************************************************************)
(* Registries: ThemeSet::load_defaults() and                               *)
(* SyntaxSet::load_defaults_newlines()                                     *)
(***************************************************************************)
Rgb(r, g, b) == [r |-> r, g |-> g, b |-> b, a |-> 255]

ThemeSet ==
    [n \in {"base16-ocean.dark", "InspiredGitHub"} |->
        IF n = "base16-ocean.dark"
        THEN [plain |-> Rgb(192, 197, 206), comment |-> Rgb(101, 115, 126)]
        ELSE [plain |-> Rgb(50, 50, 50), comment |-> Rgb(150, 152, 150)]]

ThemeNames == DOMAIN ThemeSet

ThemeInputs == ThemeNames \cup {"no-such-theme"}

SyntaxByExtension == [e \in {"rs", "txt"} |-> IF e = "rs" THEN "Rust" ELSE "Plain Text"]

ExtInputs == DOMAIN SyntaxByExtension \cup {"zz"}

PlainTextSyntax == "Plain Text"

\* ps.find_syntax_by_extension(ext): Some(syntax) as <<syntax>>, None as <<>>
find_syntax_by_extension(ext) ==
    IF ext \in DOMAIN SyntaxByExtension THEN <<SyntaxByExtension[ext]>> ELSE <<>>

(***************************************************************************)
(* str::lines(): split at "\n"; a "\r" directly before the "\n" belongs to *)
(* the line ending; a final line ending is optional; "" has no lines.      *)
(***************************************************************************)
RECURSIVE FirstNewline(_, _)
FirstNewline(s, i) ==
    IF i > Len(s) THEN 0
    ELSE IF s[i] = "\n" THEN i
    ELSE FirstNewline(s, i + 1)

RECURSIVE SplitInclusive(_)
SplitInclusive(s) ==
    IF s = <<>> THEN <<>>
    ELSE LET k == FirstNewline(s, 1)
         IN IF k = 0 THEN <<s>>
            ELSE <<SubSeq(s, 1, k)>> \o SplitInclusive(SubSeq(s, k + 1, Len(s)))

StripLineEnding(l) ==
    IF Len(l) > 0 /\ l[Len(l)] = "\n"
    THEN LET m == SubSeq(l, 1, Len(l) - 1)
         IN IF Len(m) > 0 /\ m[Len(m)] = "\r" THEN SubSeq(m, 1, Len(m) - 1) ELSE m
    ELSE l

Lines(text) ==
    LET parts == SplitInclusive(text)
    IN [i \in 1..Len(parts) |-> StripLineEnding(parts[i])]

(***************************************************************************)
(* syntect: HighlightLines::new and HighlightLines::highlight_line         *)
(***************************************************************************)
FaultChar == "!"

HasBlockComments(syntax) == syntax # PlainTextSyntax

\* HighlightLines::new(syntax, &theme): the tokenizer in its initial state
NewHighlighter(syntax, theme) ==
    [syntax |-> syntax, theme |-> theme, inComment |-> FALSE]

\* one more character of category cat: a new range when the category changes
ExtendRanges(ranges, cat, ch) ==
    IF ranges # <<>> /\ ranges[Len(ranges)].cat = cat
    THEN [ranges EXCEPT ![Len(ranges)].text = Append(@, ch)]
    ELSE Append(ranges, [cat |-> cat, text |-> <<ch>>])

RECURSIVE ParseLine(_, _, _, _)
ParseLine(syntax, line, inComment, ranges) ==
    IF line = <<>> THEN [ok |-> TRUE, ranges |-> ranges, inComment |-> inComment]
    ELSE LET ch == Head(line) IN
         IF ch = FaultChar
         THEN [ok |-> FALSE, ranges |-> <<>>, inComment |-> inComment]
         ELSE LET opens == HasBlockComments(syntax) /\ ~inComment /\ ch = "o"
                  cat == IF inComment \/ opens THEN "comment" ELSE "plain"
                  next == IF inComment THEN ch # "c" ELSE opens
              IN ParseLine(syntax, Tail(line), next, ExtendRanges(ranges, cat, ch))

\* highlighter.highlight_line(line, &syntax_set): Result<Vec<(Style, &str)>>
\* and the highlighter afterwards
highlight_line(h, line) ==
    LET r == ParseLine(h.syntax, line, h.inComment, <<>>)
    IN [ok |-> r.ok,
        ranges |-> [i \in 1..Len(r.ranges) |->
                       [style |-> [foreground |-> h.theme[r.ranges[i].cat]],
                        text |-> r.ranges[i].text]],
        h |-> [h EXCEPT !.inComment = r.inComment]]

(***************************************************************************)
(* LayoutJob runs                                                          *)
(***************************************************************************)
\* Color32::from_rgb(style.foreground.r, style.foreground.g, style.foreground.b)
from_rgb(r, g, b) == <<r, g, b>>

WHITE == from_rgb(255, 255, 255)

\* the job.append calls of one Ok(ranges)
AppendRanges(job, ranges) ==
    job \o [i \in 1..Len(ranges) |->
               [text |-> ranges[i].text,
                color |-> from_rgb(ranges[i].style.foreground.r,
                                   ranges[i].style.foreground.g,
                                   ranges[i].style.foreground.b)]]

JobText(job) == Concat([i \in 1..Len(job) |-> job[i].text])

(***************************************************************************)
(* The layouter closures                                                   *)
(***************************************************************************)
\* what one highlight_line call of a pass was given and did
CallRecord(h, line, r, runs) ==
    [line |-> line, before |-> h.inComment, after |-> r.h.inComment,
     ok |-> r.ok, runs |-> runs]

\* editor.rs: for (i, line) in text.lines().enumerate() { ... }; i is 1-based here
RECURSIVE EditorLoop(_, _, _, _, _)
EditorLoop(lines, i, h, job, calls) ==
    IF i > Len(lines) THEN [job |-> job, h |-> h, calls |-> calls]
    ELSE LET r == highlight_line(h, lines[i])
             highlighted == IF r.ok THEN AppendRanges(job, r.ranges) ELSE job
             separated == IF i < Len(lines)
                          THEN Append(highlighted, [text |-> <<"\n">>, color |-> WHITE])
                          ELSE highlighted
         IN EditorLoop(lines, i + 1, r.h, separated,
                       Append(calls, CallRecord(h, lines[i], r,
                                                SubSeq(highlighted, Len(job) + 1,
                                                       Len(highlighted)))))

\* CodeEditor::ui, one invocation of the layouter closure on `text`
EditorLayouter(syntax, theme, text) ==
    LET highlighter == NewHighlighter(syntax, theme)
        done == EditorLoop(Lines(text), 1, highlighter, <<>>, <<>>)
    IN [job |-> done.job, calls |-> done.calls,
        start |-> highlighter.inComment, h |-> done.h]

\* CodeViewer::ui, one invocation of the layouter closure on `line`, with the
\* highlighter the closure captured
ViewerLayouter(highlighter, line) ==
    LET r == highlight_line(highlighter, line)
        job == IF r.ok THEN AppendRanges(<<>>, r.ranges) ELSE <<>>
    IN [job |-> job, calls |-> <<CallRecord(highlighter, line, r, job)>>,
        start |-> highlighter.inComment, h |-> r.h]

(***************************************************************************)
(* Construction, Clone, PartialEq                                          *)
(***************************************************************************)
\* ts.themes[color_theme]: <<theme>>, or <<>> when the index panics
ThemeLookupOrDefault(color_theme) ==
    IF color_theme \in ThemeNames
    THEN <<ThemeSet[color_theme]>>
    ELSE <<ThemeSet["base16-ocean.dark"]>>

ThemeLookup(color_theme) ==
    IF color_theme \in ThemeNames THEN <<ThemeSet[color_theme]>> ELSE <<>>

\* Box::leak(Box::new(syntax.clone())): a new allocation that is never freed
BoxLeakInterned(heap, syntax) ==
    IF \E a \in 1..Len(heap) : heap[a] = syntax
    THEN [heap |-> heap, ref |-> CHOOSE a \in 1..Len(heap) : heap[a] = syntax]
    ELSE [heap |-> Append(heap, syntax), ref |-> Len(heap) + 1]

BoxLeak(heap, syntax) == [heap |-> Append(heap, syntax), ref |-> Len(heap) + 1]

\* serial number of the next construction (new or default); clones keep the
\* serial of the widget they were cloned from
NextCtor(ws) == Cardinality({ws[i].ctor : i \in 1..Len(ws)}) + 1

\* CodeEditor::new / CodeViewer::new: the widget built, or a panic
Construct(ext, color_theme, heap, ctor) ==
    LET theme == ThemeLookup(color_theme)
        syntax == find_syntax_by_extension(ext)
    IN IF theme = <<>> THEN [result |-> "panic", heap |-> heap, widget |-> <<>>]
       ELSE IF syntax = <<>> THEN [result |-> "panic", heap |-> heap, widget |-> <<>>]
       ELSE LET leak == BoxLeak(heap, syntax[1])
            IN [result |-> "ok", heap |-> leak.heap,
                widget |-> <<[code |-> <<>>,
                              syntax_set |-> SyntaxByExtension,
                              theme |-> theme[1],
                              syntax |-> leak.ref,
                              highlighter |-> <<>>,
                              ctor |-> ctor]>>]

\* impl Clone
CloneOf(w) ==
    [code |-> w.code, syntax_set |-> w.syntax_set, theme |-> w.theme,
     syntax |-> w.syntax, highlighter |-> <<>>, ctor |-> w.ctor]

\* impl PartialEq
eq(self, other) ==
    /\ self.code = other.code
    /\ self.theme = other.theme
    /\ self.syntax = other.syntax

\* the `highlighter` field when ui() returns: ui() never assigns it
FieldAfterUiStored(w, h) == h

FieldAfterUi(w, h) == w.highlighter

(***************************************************************************)
(* State                                                                   *)
(***************************************************************************)
Variants == {"editor", "viewer"}

Idle == [w |-> 0, n |-> 0, hl |-> <<>>, syntax |-> "", theme |-> <<>>]

Op(op, ext, theme, result, idx, src, before) ==
    [op |-> op, ext |-> ext, theme |-> theme, result |-> result,
     idx |-> idx, src |-> src, before |-> before]

NoOp == Op("none", "", "", "", 0, 0, 0)

\* the two most recent layouter invocations of one widget, the latest last
Remember(ps, p) ==
    IF ps = <<>> \/ ps[Len(ps)].widget # p.widget THEN <<p>>
    ELSE <<ps[Len(ps)], p>>

Init ==
    /\ variant \in Variants
    /\ widgets = <<>>
    /\ leaked = <<>>
    /\ lastOp = NoOp
    /\ ui = Idle
    /\ passes = <<>>

(***************************************************************************)
(* Operations                                                              *)
(***************************************************************************)
Created(op, ext, color_theme) ==
    LET c == Construct(ext, color_theme, leaked, NextCtor(widgets))
    IN /\ ui.w = 0
       /\ Len(widgets) < MaxWidgets
       /\ widgets' = widgets \o c.widget
       /\ leaked' = c.heap
       /\ lastOp' = Op(op, ext, color_theme, c.result,
                       IF c.result = "ok" THEN Len(widgets) + 1 ELSE 0, 0, Len(widgets))
       /\ UNCHANGED <<variant, ui, passes>>

New(ext, color_theme) == Created("new", ext, color_theme)

Default == Created("default", "rs", "base16-ocean.dark")

Clone(i) ==
    /\ ui.w = 0
    /\ i \in 1..Len(widgets)
    /\ Len(widgets) < MaxWidgets
    /\ widgets' = Append(widgets, CloneOf(widgets[i]))
    /\ lastOp' = Op("clone", "", "", "ok", Len(widgets) + 1, i, Len(widgets))
    /\ UNCHANGED <<variant, leaked, ui, passes>>

\* assignment to the public field: w.code = t
SetCode(i, t) ==
    /\ ui.w = 0
    /\ i \in 1..Len(widgets)
    /\ widgets[i].code # t
    /\ widgets' = [widgets EXCEPT ![i].code = t]
    /\ lastOp' = Op("set_code", "", "", "", 0, 0, 0)
    /\ UNCHANGED <<variant, leaked, ui, passes>>

\* ui() up to ui.add(TextEdit ... .layouter(&mut layouter)): the closure is built
UiBegin(i) ==
    /\ ui.w = 0
    /\ i \in 1..Len(widgets)
    /\ ui' = [w |-> i, n |-> 0,
              hl |-> IF variant = "viewer"
                     THEN <<NewHighlighter(leaked[widgets[i].syntax], widgets[i].theme)>>
                     ELSE <<>>,
              syntax |-> leaked[widgets[i].syntax],
              theme |-> widgets[i].theme]
    /\ lastOp' = Op("ui", "", "", "", 0, 0, 0)
    /\ UNCHANGED <<variant, widgets, leaked, passes>>

\* one invocation of the layouter by the host TextEdit on the buffer `text`.
\* The closure is a FnMut the host may invoke any number of times during one
\* ui() call (at most MaxInvocations here); the editor's closure builds its
\* highlighter inside (editor.rs:85), the viewer's closure keeps using the one
\* it captured (viewer.rs:81; the one of viewer.rs:76 is never used).
Invoke(text) ==
    LET p == IF variant = "editor"
             THEN EditorLayouter(ui.syntax, ui.theme, text)
             ELSE ViewerLayouter(ui.hl[1], text)
    IN /\ passes' = Remember(passes,
                             [widget |-> ui.w, first |-> ui.n = 0, text |-> text,
                              job |-> p.job, calls |-> p.calls,
                              start |-> p.start, end |-> p.h.inComment])
       /\ ui' = [ui EXCEPT !.n = @ + 1,
                           !.hl = IF variant = "viewer" THEN <<p.h>> ELSE @]

LayouterInvoke ==
    /\ ui.w # 0
    /\ ui.n < MaxInvocations
    /\ Invoke(widgets[ui.w].code)
    /\ lastOp' = Op("layout", "", "", "", 0, 0, 0)
    /\ UNCHANGED <<variant, widgets, leaked>>

\* the interactive TextEdit of the editor applies an input event to the buffer
\* and lays the new text out
HostEdit(t) ==
    /\ variant = "editor"
    /\ ui.w # 0
    /\ ui.n >= 1
    /\ ui.n < MaxInvocations
    /\ widgets[ui.w].code # t
    /\ widgets' = [widgets EXCEPT ![ui.w].code = t]
    /\ Invoke(t)
    /\ lastOp' = Op("edit", "", "", "", 0, 0, 0)
    /\ UNCHANGED <<variant, leaked>>

\* ui() returns the response
UiEnd ==
    /\ ui.w # 0
    /\ ui.n >= 1
    /\ widgets' = [widgets EXCEPT ![ui.w].highlighter = FieldAfterUi(widgets[ui.w], ui.hl)]
    /\ ui' = Idle
    /\ lastOp' = Op("ui_end", "", "", "", 0, 0, 0)
    /\ UNCHANGED <<variant, leaked, passes>>

Next ==
    \/ \E ext \in ExtInputs, th \in ThemeInputs : New(ext, th)
    \/ Default
    \/ \E i \in 1..MaxWidgets : Clone(i)
    \/ \E i \in 1..MaxWidgets, t \in SampleCodes : SetCode(i, t)
    \/ \E i \in 1..MaxWidgets : UiBegin(i)
    \/ LayouterInvoke
    \/ \E t \in SampleCodes : HostEdit(t)
    \/ UiEnd

Spec == Init /\ [][Next]_vars

(***************************************************************************)
(* Projection of one buffer: a widget built by new(ext, theme) whose code   *)
(* was set to any text of at most MaxLen characters, then drawn repeatedly. *)
(***************************************************************************)
ProjInit ==
    /\ variant \in Variants
    /\ \E ext \in DOMAIN SyntaxByExtension, t \in Texts :
          LET c == Construct(ext, "base16-ocean.dark", <<>>, 1)
          IN /\ widgets = <<[c.widget[1] EXCEPT !.code = t]>>
             /\ leaked = c.heap
    /\ lastOp = NoOp
    /\ ui = Idle
    /\ passes = <<>>

ProjNext ==
    \/ UiBegin(1)
    \/ LayouterInvoke
    \/ UiEnd

ProjSpec == ProjInit /\ [][ProjNext]_vars

(***************************************************************************)
(* Properties                                                              *)
(***************************************************************************)
Pass(k) == passes[k]

PassIds == 1..Len(passes)

\* C1 (round trip): in every layouter invocation in which no highlight_line
\* call failed, the texts of the runs appended to the LayoutJob, concatenated
\* in append order, are the buffer text exactly (empty texts, texts ending in
\* a newline and texts with "\r\n" included).
RoundTrip ==
    \A k \in PassIds :
        (\A c \in 1..Len(Pass(k).calls) : Pass(k).calls[c].ok) =>
            JobText(Pass(k).job) = Pass(k).text

\* C2 (degraded-line non-loss): a line on which highlight_line returned an
\* error is still appended to the job, as a single run holding the line's
\* full text.
DegradedLineNonLoss ==
    \A k \in PassIds : \A c \in 1..Len(Pass(k).calls) :
        ~Pass(k).calls[c].ok =>
            /\ Len(Pass(k).calls[c].runs) = 1
            /\ Pass(k).calls[c].runs[1].text = Pass(k).calls[c].line

\* C3 (unknown theme fails fast): new() with a theme name that is no key of
\* the theme set fails for every language identifier and adds no widget; with
\* a theme of the set and a known extension it yields a widget whose theme is
\* the registry entry of that name.
UnknownThemeFailsFast ==
    lastOp.op = "new" =>
        /\ lastOp.theme \notin ThemeNames =>
              /\ lastOp.result = "panic"
              /\ Len(widgets) = lastOp.before
        /\ (lastOp.theme \in ThemeNames /\ lastOp.ext \in DOMAIN SyntaxByExtension) =>
              /\ lastOp.result = "ok"
              /\ Len(widgets) = lastOp.before + 1
              /\ widgets[lastOp.idx].theme = ThemeSet[lastOp.theme]

UnknownThemeRejected ==
    /\ lastOp.op = "new"
    /\ lastOp.theme \notin ThemeNames
    /\ lastOp.ext \in DOMAIN SyntaxByExtension
    /\ lastOp.result = "panic"
    /\ Len(widgets) = 1

\* C4 (unknown language fallback): new() with an extension that
\* find_syntax_by_extension does not match (and a theme of the set) succeeds
\* and selects the plain-text syntax.
UnknownLanguageFallback ==
    (/\ lastOp.op = "new"
     /\ lastOp.theme \in ThemeNames
     /\ lastOp.ext \notin DOMAIN SyntaxByExtension) =>
        /\ lastOp.result = "ok"
        /\ Len(widgets) = lastOp.before + 1
        /\ leaked[widgets[Len(widgets)].syntax] = PlainTextSyntax

\* C5 (stateful-incremental passes): every layouter invocation begins with
\* the tokenizer in its initial state, and inside an invocation the state
\* left by one highlight_line call is the state the next call starts from.
StatefulIncrementalPasses ==
    \A k \in PassIds :
        /\ Pass(k).start = NewHighlighter("", <<>>).inComment
        /\ \A c \in 1..Len(Pass(k).calls) :
              Pass(k).calls[c].before =
                  IF c = 1 THEN Pass(k).start ELSE Pass(k).calls[c - 1].after

\* C6 (idempotence): two consecutive layouter invocations on the same text
\* produce the same runs (texts and colours, in order).
Idempotence ==
    (Len(passes) = 2 /\ Pass(1).text = Pass(2).text) => Pass(1).job = Pass(2).job

\* C7 (no state drift across buffer replacement): no widget ever holds a
\* highlighter in its `highlighter` field, and the first tokenization of
\* every ui() call starts from the initial tokenizer state, whatever text was
\* tokenized before.
NoStateDrift ==
    /\ \A i \in 1..Len(widgets) : widgets[i].highlighter = <<>>
    /\ ui.w # 0 /\ ui.n = 0 /\ ui.hl # <<>> =>
          ui.hl[1].inComment = NewHighlighter("", <<>>).inComment
    /\ \A k \in PassIds :
          Pass(k).first => Pass(k).start = NewHighlighter("", <<>>).inComment

ReplacedAfterOpenComment ==
    /\ Len(passes) = 2
    /\ Pass(2).first
    /\ Pass(1).end
    /\ Pass(1).text # Pass(2).text
    /\ ~Pass(2).start
    /\ Len(widgets) = 2

\* decimal digits of a positive number
RECURSIVE Decimal(_)
Decimal(n) ==
    LET d == <<"0", "1", "2", "3", "4", "5", "6", "7", "8", "9">>[(n % 10) + 1]
    IN IF n < 10 THEN <<d>> ELSE Append(Decimal(n \div 10), d)

\* the 1-based index i right-aligned in a gutter of four columns
Gutter(i) ==
    [j \in 1..(4 - Len(Decimal(i))) |-> " "] \o Decimal(i)

\* C8 (line numbering, viewer): the output of a viewer pass over a buffer of
\* N lines has N visual lines, the i-th being the gutter with the index i
\* followed by the i-th line of the buffer.
ViewerLineNumbering ==
    variant = "viewer" =>
        \A k \in PassIds :
            LET shown == Lines(JobText(Pass(k).job))
                lines == Lines(Pass(k).text)
            IN /\ Len(shown) = Len(lines)
               /\ \A i \in 1..Len(lines) : shown[i] = Gutter(i) \o lines[i]

\* C9 (per-line feeding): in a pass over a text of two or more lines the
\* highlight_line calls receive the lines of the text, one line per call, in
\* buffer order, each exactly once; no call receives more than one line.
PerLineFeeding ==
    \A k \in PassIds :
        Len(Lines(Pass(k).text)) >= 2 =>
            [c \in 1..Len(Pass(k).calls) |-> Pass(k).calls[c].line] = Lines(Pass(k).text)

\* C10 (equality is identity of the syntax allocation): a clone equals the
\* widget it was cloned from for as long as their codes agree, and widgets of
\* separate constructions are never equal, whatever their language, theme and
\* code.
EqualityIsSyntaxIdentity ==
    /\ \A i, j \in 1..Len(widgets) :
          IF widgets[i].ctor = widgets[j].ctor
          THEN eq(widgets[i], widgets[j]) <=> widgets[i].code = widgets[j].code
          ELSE ~eq(widgets[i], widgets[j])
    /\ lastOp.op = "clone" => eq(widgets[lastOp.idx], widgets[lastOp.src])

TwinConstructionsDiffer ==
    /\ Len(widgets) = 2
    /\ widgets[1].ctor # widgets[2].ctor
    /\ widgets[1].code = widgets[2].code
    /\ widgets[1].theme = widgets[2].theme
    /\ leaked[widgets[1].syntax] = leaked[widgets[2].syntax]
    /\ ~eq(widgets[1], widgets[2])

====
